---- MODULE Spec2Model ----
(***************************************************************************)
(* The C interface of the AMQP message wrapper (model/message.rs): the    *)
(* message builder chain, the built / created / deserialized message and  *)
(* its section and body accessors.                                        *)
(*                                                                         *)
(* The caller modelled here keeps one object alive at a time (a builder   *)
(* or a message), assigns the pointer a builder function returns to its   *)
(* builder variable, clears the variable it passed to a destroy or build  *)
(* call, passes only live handles, and hands every call a freshly         *)
(* constructed call context.                                              *)
(***************************************************************************)
EXTENDS Integers, Sequences, FiniteSets, TLC

\* Most body chunks a builder chain adds.
MaxChunks == 2
\* Longest byte buffer handed to message_deserialize.
MaxData == 2
\* Size of the heap's address pool.
NumAddrs == 3

NULL == 0
Addrs == 1..NumAddrs

(***************************************************************************)
(* AmqpValue: the generic value.  Every value carries the same fields so   *)
(* that values of different variants compare.                              *)
(***************************************************************************)
Key(tag, id) == [tag |-> tag, id |-> id]
Pair(k, v) == [k |-> k, v |-> v]
MapValue(m) == [tag |-> "Map", map |-> m, list |-> <<>>]
ListValue(l) == [tag |-> "List", map |-> <<>>, list |-> l]
StringValue == [tag |-> "String", map |-> <<>>, list |-> <<>>]
NullValue == [tag |-> "Null", map |-> <<>>, list |-> <<>>]

EmptyMap == MapValue(<<>>)
SymbolMap == MapValue(<<Pair(Key("Symbol", 1), 5)>>)
StringMap == MapValue(<<Pair(Key("String", 1), 5)>>)
EmptyList == ListValue(<<>>)
OneList == ListValue(<<4>>)

\* What a caller passes: to set_delivery_annotations (a map's keys are
\* annotation keys), to set_message_annotations and set_footer, to
\* set_application_properties, as a sequence chunk, as a value body, as a
\* binary chunk and as a header.
AnnotationInputs == {EmptyMap, SymbolMap, StringValue}
ShortAnnotationInputs == {EmptyMap, EmptyList}
PropertyInputs == {EmptyMap, StringMap, SymbolMap, OneList}
SequenceInputs == {OneList, EmptyMap}
BodyValueInputs == {StringValue}
Buffers == {<<1>>, <<2, 3>>}
Headers == {<<1>>}

None == [some |-> FALSE, val |-> <<>>]
Some(v) == [some |-> TRUE, val |-> v]

\* AmqpValue -> AmqpAnnotationKey and back.
AnnotationKeyFromValue(k) ==
    IF k.tag = "Symbol" THEN Key("KeySymbol", k.id) ELSE Key("KeyUlong", k.id)
ValueFromAnnotationKey(k) ==
    IF k.tag = "KeySymbol" THEN Key("Symbol", k.id) ELSE Key("ULong", k.id)
\* String -> AmqpValue.
ValueFromString(s) == Key("String", s)

\* map.iter().map(|f| (f.0.into(), f.1)).collect()
CollectAnnotations(map) ==
    [i \in DOMAIN map |-> Pair(AnnotationKeyFromValue(map[i].k), map[i].v)]
\* The key match of set_application_properties: a key that is no String panics.
AllStringKeys(map) == \A i \in DOMAIN map : map[i].k.tag = "String"
CollectProperties(map) == [i \in DOMAIN map |-> Pair(map[i].k.id, map[i].v)]
\* da.0.clone().into_iter().map(|f| (AmqpValue::from(f.0), f.1)).collect()
AnnotationsToValue(ann) ==
    MapValue([i \in DOMAIN ann |-> Pair(ValueFromAnnotationKey(ann[i].k), ann[i].v)])
PropertiesToValue(props) ==
    MapValue([i \in DOMAIN props |-> Pair(ValueFromString(props[i].k), props[i].v)])

(***************************************************************************)
(* AmqpMessage, AmqpMessageBody and the AmqpMessageBuilder methods.        *)
(***************************************************************************)
Body(tag, binary, sequence, value) ==
    [tag |-> tag, binary |-> binary, sequence |-> sequence, value |-> value]
EmptyBody == Body("Empty", <<>>, <<>>, NullValue)

DefaultMessage ==
    [header |-> None, delivery_annotations |-> None, message_annotations |-> None,
     application_properties |-> None, footer |-> None, body |-> EmptyBody]

with_header(m, h) == [m EXCEPT !.header = Some(h)]
with_delivery_annotations(m, a) == [m EXCEPT !.delivery_annotations = Some(a)]
with_message_annotations(m, a) == [m EXCEPT !.message_annotations = Some(a)]
with_application_properties(m, p) == [m EXCEPT !.application_properties = Some(p)]
with_footer(m, a) == [m EXCEPT !.footer = Some(a)]
with_body(m, v) == [m EXCEPT !.body = Body("Value", <<>>, <<>>, v)]
add_message_body_binary(m, vec) ==
    IF m.body.tag = "Binary"
    THEN [m EXCEPT !.body.binary = Append(@, vec)]
    ELSE [m EXCEPT !.body = Body("Binary", <<vec>>, <<>>, NullValue)]
add_message_body_sequence(m, list) ==
    IF m.body.tag = "Sequence"
    THEN [m EXCEPT !.body.sequence = Append(@, list)]
    ELSE [m EXCEPT !.body = Body("Sequence", <<>>, <<list>>, NullValue)]

\* AmqpMessage::decode over a length-prefixed run of binary chunks.
RECURSIVE DecodeChunks(_)
DecodeChunks(data) ==
    IF data = <<>> THEN [ok |-> TRUE, chunks |-> <<>>]
    ELSE IF data[1] > Len(data) - 1 THEN [ok |-> FALSE, chunks |-> <<>>]
    ELSE LET rest == DecodeChunks(SubSeq(data, data[1] + 2, Len(data)))
         IN  [ok |-> rest.ok,
              chunks |-> IF rest.ok
                         THEN <<SubSeq(data, 2, data[1] + 1)>> \o rest.chunks
                         ELSE <<>>]
decode(data) ==
    LET r == DecodeChunks(data)
    IN  [ok |-> r.ok,
         message |-> IF r.ok /\ r.chunks # <<>>
                     THEN [DefaultMessage EXCEPT
                             !.body = Body("Binary", r.chunks, <<>>, NullValue)]
                     ELSE DefaultMessage]

RECURSIVE SeqsUpTo(_, _)
SeqsUpTo(S, n) ==
    IF n = 0 THEN {<<>>}
    ELSE LET shorter == SeqsUpTo(S, n - 1)
         IN  shorter \cup {Append(s, x) : s \in shorter, x \in S}
DataInputs == SeqsUpTo({0, 1}, MaxData)

(***************************************************************************)
(* State.                                                                  *)
(*   builders, messages  the live Box<RustAmqpMessageBuilder> and          *)
(*                       Box<RustAmqpMessage> allocations, by address      *)
(*   hBuilder, hMessage  the caller's builder and message pointers         *)
(*   call_context        the call context handed to the latest call that   *)
(*                       takes one                                         *)
(*   ret                 the latest call: its name, whether it returned,   *)
(*                       its return value and what it wrote through its    *)
(*                       out-parameters                                    *)
(*   panicked            a panic! has been raised inside an extern "C" fn  *)
(*   hist                the calls of the chain the live object comes from *)
(***************************************************************************)
VARIABLES builders, messages, hBuilder, hMessage, call_context, ret, panicked, hist

vars == <<builders, messages, hBuilder, hMessage, call_context, ret, panicked, hist>>

Live == DOMAIN builders \cup DOMAIN messages
Alloc == CHOOSE a \in Addrs \ Live : \A b \in Addrs \ Live : a <= b

\* Box::from_raw(p) followed by the drop of the box; Box::into_raw(Box::new(x)).
Box_from_raw(heap, p) == [a \in DOMAIN heap \ {p} |-> heap[a]]
Box_into_raw(heap, a, x) == [b \in DOMAIN heap \cup {a} |-> IF b = a THEN x ELSE heap[b]]

NewCallContext == [error |-> ""]
set_error(ctx, msg) == [ctx EXCEPT !.error = msg]

Call(op) ==
    [op |-> op, returned |-> TRUE, status |-> 0, ptr |-> NULL, written |-> FALSE,
     null |-> FALSE, value |-> NullValue, bytes |-> <<>>, count |-> 0, kind |-> ""]
Panic(op) == [Call(op) EXCEPT !.returned = FALSE]

NoHistory ==
    [origin |-> "none", delivery_annotations |-> "never", message_annotations |-> "never",
     application_properties |-> "never", footer |-> "never", adds |-> <<>>,
     other_body |-> FALSE]
Passed(value) == IF value.map = <<>> THEN "empty" ELSE "nonempty"

Init ==
    /\ builders = <<>>
    /\ messages = <<>>
    /\ hBuilder = NULL
    /\ hMessage = NULL
    /\ call_context = NewCallContext
    /\ ret = Call("none")
    /\ panicked = FALSE
    /\ hist = NoHistory

(***************************************************************************)
(* Construction and destruction.                                           *)
(***************************************************************************)
messagebuilder_create ==
    /\ ~panicked
    /\ Live = {}
    /\ builders' = Box_into_raw(builders, Alloc, DefaultMessage)
    /\ hBuilder' = Alloc
    /\ ret' = [Call("messagebuilder_create") EXCEPT !.ptr = Alloc]
    /\ hist' = [NoHistory EXCEPT !.origin = "builder"]
    /\ UNCHANGED <<messages, hMessage, call_context, panicked>>

messagebuilder_destroy ==
    /\ ~panicked
    /\ hBuilder \in DOMAIN builders
    /\ builders' = Box_from_raw(builders, hBuilder)
    /\ hBuilder' = NULL
    /\ ret' = Call("messagebuilder_destroy")
    /\ UNCHANGED <<messages, hMessage, call_context, panicked, hist>>

\* messagebuilder_build_and_destroy building from a borrowed builder.
messagebuilder_build_and_destroy_borrowing ==
    /\ ~panicked
    /\ hBuilder \in DOMAIN builders
    /\ builders' = builders
    /\ messages' = Box_into_raw(messages, Alloc, builders[hBuilder])
    /\ hMessage' = Alloc
    /\ ret' = [Call("messagebuilder_build_and_destroy") EXCEPT !.ptr = Alloc]
    /\ hBuilder' = NULL
    /\ hist' = [hist EXCEPT !.origin = "built"]
    /\ UNCHANGED <<call_context, panicked>>

messagebuilder_build_and_destroy ==
    /\ ~panicked
    /\ hBuilder \in DOMAIN builders
    /\ builders' = Box_from_raw(builders, hBuilder)
    /\ messages' = Box_into_raw(messages, Alloc, builders[hBuilder])
    /\ hMessage' = Alloc
    /\ ret' = [Call("messagebuilder_build_and_destroy") EXCEPT !.ptr = Alloc]
    /\ hBuilder' = NULL
    /\ hist' = [hist EXCEPT !.origin = "built"]
    /\ UNCHANGED <<call_context, panicked>>

message_create ==
    /\ ~panicked
    /\ Live = {}
    /\ messages' = Box_into_raw(messages, Alloc, DefaultMessage)
    /\ hMessage' = Alloc
    /\ ret' = [Call("message_create") EXCEPT !.ptr = Alloc]
    /\ hist' = [NoHistory EXCEPT !.origin = "default"]
    /\ UNCHANGED <<builders, hBuilder, call_context, panicked>>

message_destroy ==
    /\ ~panicked
    /\ hMessage \in DOMAIN messages
    /\ messages' = Box_from_raw(messages, hMessage)
    /\ hMessage' = NULL
    /\ ret' = Call("message_destroy")
    /\ UNCHANGED <<builders, hBuilder, call_context, panicked, hist>>

\* message_deserialize storing a handle before it looks at the decode result.
message_deserialize_result_partial(data) ==
    LET val == decode(data)
    IN  [status |-> IF val.ok THEN 0 ELSE 1, boxed |-> TRUE, message |-> val.message]

\* The match on AmqpMessage::decode: what is returned and what is stored
\* through the message out-parameter (boxed: a new handle is stored).
message_deserialize_result(data) ==
    LET val == decode(data)
    IN  IF val.ok
        THEN [status |-> 0, boxed |-> TRUE, message |-> val.message]
        ELSE [status |-> 1, boxed |-> FALSE, message |-> DefaultMessage]

message_deserialize(data) ==
    /\ ~panicked
    /\ Live = {}
    /\ LET r == message_deserialize_result(data)
       IN  /\ messages' = IF r.boxed THEN Box_into_raw(messages, Alloc, r.message)
                          ELSE messages
           /\ hMessage' = IF r.boxed THEN Alloc ELSE hMessage
           /\ ret' = [Call("message_deserialize") EXCEPT !.status = r.status]
           /\ hist' = IF r.boxed THEN [NoHistory EXCEPT !.origin = "decoded"] ELSE hist
    /\ UNCHANGED <<builders, hBuilder, call_context, panicked>>

(***************************************************************************)
(* Section and body accessors: each is the record the call leaves in ret,  *)
(* or a panic.                                                             *)
(***************************************************************************)
OutNull(r) == [r EXCEPT !.written = TRUE, !.null = TRUE]
OutValue(r, v) == [r EXCEPT !.written = TRUE, !.null = FALSE, !.value = v]

\* message_get_delivery_annotations reading an absent section as an empty map.
message_get_delivery_annotations_result_coalesced(m) ==
    LET r == Call("message_get_delivery_annotations")
    IN  [OutValue(r, AnnotationsToValue(m.delivery_annotations.val)) EXCEPT !.status = 0]

message_get_delivery_annotations_result(m) ==
    LET r == Call("message_get_delivery_annotations")
    IN  IF m.delivery_annotations.some
        THEN [OutValue(r, AnnotationsToValue(m.delivery_annotations.val)) EXCEPT !.status = 0]
        ELSE [OutNull(r) EXCEPT !.status = 1]

message_get_message_annotations_result(m) ==
    LET r == Call("message_get_message_annotations")
    IN  IF m.message_annotations.some
        THEN [OutValue(r, AnnotationsToValue(m.message_annotations.val)) EXCEPT !.status = 0]
        ELSE [OutNull(r) EXCEPT !.status = 1]

message_get_application_properties_result(m) ==
    LET r == Call("message_get_application_properties")
    IN  IF m.application_properties.some
        THEN [OutValue(r, PropertiesToValue(m.application_properties.val)) EXCEPT !.status = 0]
        ELSE [OutNull(r) EXCEPT !.status = 1]

message_get_footer_result(m) ==
    LET r == Call("message_get_footer")
    IN  IF m.footer.some
        THEN [OutValue(r, AnnotationsToValue(m.footer.val)) EXCEPT !.status = 0]
        ELSE [OutNull(r) EXCEPT !.status = 1]

message_get_body_type_result(m) ==
    [Call("message_get_body_type") EXCEPT
        !.written = TRUE,
        !.kind = CASE m.body.tag = "Binary" -> "Data"
                   [] m.body.tag = "Value" -> "Value"
                   [] m.body.tag = "Sequence" -> "Sequence"
                   [] m.body.tag = "Empty" -> "None",
        !.status = 0]

\* message_get_body_amqp_data_count answering 0 chunks on a body that is not Binary.
message_get_body_amqp_data_count_result_defaulted(m) ==
    [Call("message_get_body_amqp_data_count") EXCEPT
        !.written = TRUE, !.count = Len(m.body.binary), !.status = 0]

message_get_body_amqp_data_count_result(m) ==
    LET r == Call("message_get_body_amqp_data_count")
    IN  IF m.body.tag = "Binary"
        THEN [r EXCEPT !.written = TRUE, !.count = Len(m.body.binary), !.status = 0]
        ELSE [r EXCEPT !.status = 1]

message_get_body_amqp_sequence_count_result(m) ==
    LET r == Call("message_get_body_amqp_sequence_count")
    IN  IF m.body.tag = "Sequence"
        THEN [r EXCEPT !.written = TRUE, !.count = Len(m.body.sequence), !.status = 0]
        ELSE [r EXCEPT !.status = 1]

\* message_get_body_amqp_data_in_place reading the first chunk whatever the index.
message_get_body_amqp_data_in_place_result_first(m, index) ==
    LET r == Call("message_get_body_amqp_data_in_place")
    IN  IF m.body.tag = "Binary"
        THEN IF index < Len(m.body.binary)
             THEN [r EXCEPT !.written = TRUE, !.bytes = m.body.binary[1],
                            !.count = Len(m.body.binary[1]), !.status = 0]
             ELSE Panic("message_get_body_amqp_data_in_place")
        ELSE [r EXCEPT !.status = 1]

\* d[index as usize] is a checked index: past the end it panics.
message_get_body_amqp_data_in_place_result(m, index) ==
    LET r == Call("message_get_body_amqp_data_in_place")
    IN  IF m.body.tag = "Binary"
        THEN IF index < Len(m.body.binary)
             THEN [r EXCEPT !.written = TRUE, !.bytes = m.body.binary[index + 1],
                            !.count = Len(m.body.binary[index + 1]), !.status = 0]
             ELSE Panic("message_get_body_amqp_data_in_place")
        ELSE [r EXCEPT !.status = 1]

message_get_body_amqp_sequence_in_place_result(m, index) ==
    LET r == Call("message_get_body_amqp_sequence_in_place")
    IN  IF m.body.tag = "Sequence"
        THEN IF index < Len(m.body.sequence)
             THEN [OutValue(r, ListValue(m.body.sequence[index + 1])) EXCEPT !.status = 0]
             ELSE Panic("message_get_body_amqp_sequence_in_place")
        ELSE [r EXCEPT !.status = 1]

message_get_body_amqp_value_in_place_result(m) ==
    LET r == Call("message_get_body_amqp_value_in_place")
    IN  IF m.body.tag = "Value"
        THEN [OutValue(r, m.body.value) EXCEPT !.status = 0]
        ELSE [r EXCEPT !.status = 1]

\* A call on the caller's message: the message is borrowed, never changed.
Inspect(r) ==
    /\ ~panicked
    /\ hMessage \in DOMAIN messages
    /\ ret' = r
    /\ panicked' = ~r.returned
    /\ UNCHANGED <<builders, messages, hBuilder, hMessage, call_context, hist>>

message_get_delivery_annotations ==
    Inspect(message_get_delivery_annotations_result(messages[hMessage]))
message_get_message_annotations ==
    Inspect(message_get_message_annotations_result(messages[hMessage]))
message_get_application_properties ==
    Inspect(message_get_application_properties_result(messages[hMessage]))
message_get_footer ==
    Inspect(message_get_footer_result(messages[hMessage]))
message_get_body_type ==
    Inspect(message_get_body_type_result(messages[hMessage]))
message_get_body_amqp_data_count ==
    Inspect(message_get_body_amqp_data_count_result(messages[hMessage]))
message_get_body_amqp_sequence_count ==
    Inspect(message_get_body_amqp_sequence_count_result(messages[hMessage]))
message_get_body_amqp_data_in_place(index) ==
    Inspect(message_get_body_amqp_data_in_place_result(messages[hMessage], index))
message_get_body_amqp_sequence_in_place(index) ==
    Inspect(message_get_body_amqp_sequence_in_place_result(messages[hMessage], index))
message_get_body_amqp_value_in_place ==
    Inspect(message_get_body_amqp_value_in_place_result(messages[hMessage]))

(***************************************************************************)
(* Builder setters and adders: each is what the call does with the builder *)
(* it took (inner): a new builder, a null return with an error recorded in *)
(* the call context, or a panic.                                           *)
(***************************************************************************)
Built(inner) == [outcome |-> "builder", inner |-> inner, error |-> ""]
Failed(msg) == [outcome |-> "null", inner |-> DefaultMessage, error |-> msg]
Panicked == [outcome |-> "panic", inner |-> DefaultMessage, error |-> ""]

messagebuilder_set_delivery_annotations_result(inner, value) ==
    IF value.tag = "Map"
    THEN Built(with_delivery_annotations(inner, CollectAnnotations(value.map)))
    ELSE Failed("Delivery annotations must be a map")

messagebuilder_set_message_annotations_result(inner, value) ==
    IF value.tag = "Map"
    THEN Built(with_message_annotations(inner, CollectAnnotations(value.map)))
    ELSE Failed("Message annotations must be a map")

messagebuilder_set_application_properties_result(inner, value) ==
    IF value.tag = "Map"
    THEN IF AllStringKeys(value.map)
         THEN Built(with_application_properties(inner, CollectProperties(value.map)))
         ELSE Panicked
    ELSE Failed("Application Properties must be a map")

\* messagebuilder_set_footer taking a value that is no map for an empty map.
messagebuilder_set_footer_result_coerced(inner, value) ==
    Built(with_footer(inner, CollectAnnotations(value.map)))

messagebuilder_set_footer_result(inner, value) ==
    IF value.tag = "Map"
    THEN Built(with_footer(inner, CollectAnnotations(value.map)))
    ELSE Failed("Footer must be a map")

messagebuilder_set_header_result(inner, header) == Built(with_header(inner, header))

messagebuilder_add_body_amqp_data_result(inner, data) ==
    Built(add_message_body_binary(inner, data))

messagebuilder_add_body_amqp_sequence_result(inner, value) ==
    IF value.tag = "List"
    THEN Built(add_message_body_sequence(inner, value.list))
    ELSE Failed("Sequence must be a list")

messagebuilder_set_body_amqp_value_result(inner, value) == Built(with_body(inner, value))

\* A call on the caller's builder: Box::from_raw takes the builder, and the
\* caller assigns the pointer returned; h is the chain's history afterwards.
Chain(op, r, h) ==
    /\ ~panicked
    /\ hBuilder \in DOMAIN builders
    /\ builders' = IF r.outcome = "builder"
                   THEN Box_into_raw(Box_from_raw(builders, hBuilder), Alloc, r.inner)
                   ELSE Box_from_raw(builders, hBuilder)
    /\ hBuilder' = CASE r.outcome = "builder" -> Alloc
                     [] r.outcome = "null" -> NULL
                     [] r.outcome = "panic" -> hBuilder
    /\ call_context' = IF r.outcome = "null"
                       THEN set_error(NewCallContext, r.error)
                       ELSE NewCallContext
    /\ ret' = CASE r.outcome = "builder" -> [Call(op) EXCEPT !.ptr = Alloc]
                [] r.outcome = "null" -> Call(op)
                [] r.outcome = "panic" -> Panic(op)
    /\ panicked' = (r.outcome = "panic")
    /\ hist' = IF r.outcome = "builder" THEN h ELSE hist
    /\ UNCHANGED <<messages, hMessage>>

messagebuilder_set_delivery_annotations(value) ==
    Chain("messagebuilder_set_delivery_annotations",
          messagebuilder_set_delivery_annotations_result(builders[hBuilder], value),
          [hist EXCEPT !.delivery_annotations = Passed(value)])

messagebuilder_set_message_annotations(value) ==
    Chain("messagebuilder_set_message_annotations",
          messagebuilder_set_message_annotations_result(builders[hBuilder], value),
          [hist EXCEPT !.message_annotations = Passed(value)])

messagebuilder_set_application_properties(value) ==
    Chain("messagebuilder_set_application_properties",
          messagebuilder_set_application_properties_result(builders[hBuilder], value),
          [hist EXCEPT !.application_properties = Passed(value)])

messagebuilder_set_footer(value) ==
    Chain("messagebuilder_set_footer",
          messagebuilder_set_footer_result(builders[hBuilder], value),
          [hist EXCEPT !.footer = Passed(value)])

messagebuilder_set_header(header) ==
    Chain("messagebuilder_set_header",
          messagebuilder_set_header_result(builders[hBuilder], header),
          hist)

messagebuilder_add_body_amqp_data(data) ==
    /\ Len(hist.adds) < MaxChunks
    /\ Chain("messagebuilder_add_body_amqp_data",
             messagebuilder_add_body_amqp_data_result(builders[hBuilder], data),
             [hist EXCEPT !.adds = Append(@, data)])

messagebuilder_add_body_amqp_sequence(value) ==
    /\ hBuilder \in DOMAIN builders
    /\ Len(builders[hBuilder].body.sequence) < MaxChunks
    /\ Chain("messagebuilder_add_body_amqp_sequence",
             messagebuilder_add_body_amqp_sequence_result(builders[hBuilder], value),
             [hist EXCEPT !.other_body = TRUE])

messagebuilder_set_body_amqp_value(value) ==
    Chain("messagebuilder_set_body_amqp_value",
          messagebuilder_set_body_amqp_value_result(builders[hBuilder], value),
          [hist EXCEPT !.other_body = TRUE])

Next ==
    \/ messagebuilder_create
    \/ messagebuilder_destroy
    \/ messagebuilder_build_and_destroy
    \/ message_create
    \/ message_destroy
    \/ \E data \in DataInputs : message_deserialize(data)
    \/ message_get_delivery_annotations
    \/ message_get_message_annotations
    \/ message_get_application_properties
    \/ message_get_footer
    \/ message_get_body_type
    \/ message_get_body_amqp_data_count
    \/ message_get_body_amqp_sequence_count
    \/ \E index \in 0..MaxChunks : message_get_body_amqp_data_in_place(index)
    \/ \E index \in 0..MaxChunks : message_get_body_amqp_sequence_in_place(index)
    \/ message_get_body_amqp_value_in_place
    \/ \E value \in AnnotationInputs : messagebuilder_set_delivery_annotations(value)
    \/ \E value \in ShortAnnotationInputs : messagebuilder_set_message_annotations(value)
    \/ \E value \in PropertyInputs : messagebuilder_set_application_properties(value)
    \/ \E value \in ShortAnnotationInputs : messagebuilder_set_footer(value)
    \/ \E header \in Headers : messagebuilder_set_header(header)
    \/ \E data \in Buffers : messagebuilder_add_body_amqp_data(data)
    \/ \E value \in SequenceInputs : messagebuilder_add_body_amqp_sequence(value)
    \/ \E value \in BodyValueInputs : messagebuilder_set_body_amqp_value(value)

Spec == Init /\ [][Next]_vars

(***************************************************************************)
(* Properties.                                                             *)
(***************************************************************************)
BodyAdders == {"messagebuilder_add_body_amqp_data", "messagebuilder_add_body_amqp_sequence"}
FallibleSetters ==
    {"messagebuilder_set_delivery_annotations", "messagebuilder_set_message_annotations",
     "messagebuilder_set_application_properties", "messagebuilder_set_footer",
     "messagebuilder_add_body_amqp_sequence"}
AdderVariant(op) == IF op = "messagebuilder_add_body_amqp_data" THEN "Binary" ELSE "Sequence"

\* C1: an add_body_binary_chunk or add_body_sequence_chunk on a builder whose
\* body is already of another variant is rejected with an error, and no
\* builder with a switched body variant comes out of it.
C1_VariantConflictRejected ==
    [][(/\ ret'.op \in BodyAdders
        /\ hBuilder \in DOMAIN builders
        /\ builders[hBuilder].body.tag \notin {"Empty", AdderVariant(ret'.op)})
       => (/\ ret'.returned
           /\ call_context'.error # ""
           /\ \A a \in DOMAIN builders' :
                 builders'[a].body.tag = builders[hBuilder].body.tag)]_vars

\* C2: a setter or adder that signals an error leaves the builder it was
\* given live, with the sections and body it had before the call.
C2_FailedMutationKeepsBuilder ==
    [][(ret'.op \in FallibleSetters /\ call_context'.error # "")
       => (/\ hBuilder \in DOMAIN builders'
           /\ builders'[hBuilder] = builders[hBuilder])]_vars

\* C3: set_application_properties with a map holding a non-text key returns
\* to its caller with an error recorded, never panics, and the builder it
\* was given stays usable.
C3_NonTextKeyIsRecoverable ==
    [][\A value \in PropertyInputs :
         (/\ value.tag = "Map"
          /\ ~AllStringKeys(value.map)
          /\ messagebuilder_set_application_properties(value))
         => (/\ ret'.returned
             /\ ~panicked'
             /\ call_context'.error # ""
             /\ hBuilder \in DOMAIN builders'
             /\ builders'[hBuilder] = builders[hBuilder])]_vars

\* C4: binary_chunk_at(i) and sequence_chunk_at(i) with i at or past the
\* chunk count return an error status, without a panic and without writing
\* the out-parameters.
C4_IndexOutOfRangeIsRecoverable ==
    [][\A index \in 0..MaxChunks :
         /\ (/\ hMessage \in DOMAIN messages
             /\ messages[hMessage].body.tag = "Binary"
             /\ index >= Len(messages[hMessage].body.binary)
             /\ message_get_body_amqp_data_in_place(index))
            => (ret'.returned /\ ~panicked' /\ ret'.status # 0 /\ ~ret'.written)
         /\ (/\ hMessage \in DOMAIN messages
             /\ messages[hMessage].body.tag = "Sequence"
             /\ index >= Len(messages[hMessage].body.sequence)
             /\ message_get_body_amqp_sequence_in_place(index))
            => (ret'.returned /\ ~panicked' /\ ret'.status # 0 /\ ~ret'.written)]_vars

SectionGetters ==
    {<<"message_get_delivery_annotations", "delivery_annotations">>,
     <<"message_get_message_annotations", "message_annotations">>,
     <<"message_get_application_properties", "application_properties">>,
     <<"message_get_footer", "footer">>}

\* C5: on a built message, the getter of a section whose setter the chain
\* never called writes a null out-pointer, and the getter of a section
\* whose setter was last passed an empty map writes a map that is empty.
C5_AbsentIsNotEmpty ==
    (hist.origin = "built" /\ hMessage \in DOMAIN messages)
    => \A g \in SectionGetters :
         ret.op = g[1]
         => /\ hist[g[2]] = "never" => (ret.written /\ ret.null)
            /\ hist[g[2]] = "empty"
               => (ret.written /\ ~ret.null /\ ret.status = 0 /\ ret.value = EmptyMap)

C5_Witness ==
    /\ hist.origin = "built"
    /\ hMessage \in DOMAIN messages
    /\ hist.delivery_annotations = "empty"
    /\ hist.footer = "never"
    /\ ret.op = "message_get_delivery_annotations"
    /\ ret.written /\ ~ret.null /\ ret.value = EmptyMap

MessageComplete(m) ==
    /\ m.body.tag \in {"Binary", "Sequence", "Value", "Empty"}
    /\ m.body.tag # "Binary" => m.body.binary = <<>>
    /\ m.body.tag = "Binary" => m.body.binary # <<>>
    /\ m.body.tag # "Sequence" => m.body.sequence = <<>>
    /\ m.body.tag # "Value" => m.body.value = NullValue

\* C6: a message_deserialize that returns non-zero leaves the message
\* out-parameter and the set of message handles as they were; one that
\* returns 0 leaves in the out-parameter the one new handle, of a complete
\* message.
C6_DecodeFailureExposesNothing ==
    [][ret'.op = "message_deserialize"
       => /\ ret'.status # 0 => (hMessage' = hMessage /\ messages' = messages)
          /\ ret'.status = 0
             => /\ hMessage' \notin DOMAIN messages
                /\ DOMAIN messages' = DOMAIN messages \cup {hMessage'}
                /\ \A a \in DOMAIN messages : messages'[a] = messages[a]
                /\ MessageComplete(messages'[hMessage'])]_vars

C6_Witness ==
    /\ ret.op = "message_deserialize"
    /\ ret.status # 0
    /\ hMessage = NULL
    /\ messages = <<>>

\* What a map-section setter called with value leaves behind: with a map, a
\* builder whose section reads back as that map, and no error; with anything
\* else the error msg in the call context and a null return.
SetterOutcome(value, section, msg) ==
    IF value.tag = "Map"
    THEN /\ ret'.ptr \in DOMAIN builders'
         /\ builders'[ret'.ptr][section].some
         /\ AnnotationsToValue(builders'[ret'.ptr][section].val) = value
         /\ call_context'.error = ""
    ELSE /\ call_context'.error = msg
         /\ ret'.ptr = NULL
         /\ builders' = <<>>

\* C7: set_delivery_annotations, set_message_annotations and set_footer
\* called with a value that is no map record "<Section> must be a map" and
\* return no builder; called with a map they return a builder with the
\* section set to it and record no error.
C7_NonMapIsReported ==
    [][/\ \A value \in AnnotationInputs :
            messagebuilder_set_delivery_annotations(value)
            => SetterOutcome(value, "delivery_annotations",
                             "Delivery annotations must be a map")
       /\ \A value \in ShortAnnotationInputs :
            messagebuilder_set_message_annotations(value)
            => SetterOutcome(value, "message_annotations",
                             "Message annotations must be a map")
       /\ \A value \in ShortAnnotationInputs :
            messagebuilder_set_footer(value)
            => SetterOutcome(value, "footer", "Footer must be a map")]_vars

C7_Witness ==
    /\ ret.op = "messagebuilder_set_footer"
    /\ call_context.error = "Footer must be a map"
    /\ ret.ptr = NULL
    /\ hist.delivery_annotations = "nonempty"

\* C8: the count and chunk accessors of the binary body return 0 only on a
\* Binary body, those of the sequence body only on a Sequence body, the
\* value accessor only on a Value body; on any other body they return
\* non-zero and write nothing; body_type returns 0 and reports the one
\* variant the body has.
C8_AccessorsMatchVariant ==
    (hMessage \in DOMAIN messages /\ ret.returned)
    => LET tag == messages[hMessage].body.tag
           Matches(ops, variant) ==
               ret.op \in ops
               => /\ ret.status = 0 => tag = variant
                  /\ tag # variant => (ret.status # 0 /\ ~ret.written)
       IN  /\ Matches({"message_get_body_amqp_data_count",
                       "message_get_body_amqp_data_in_place"}, "Binary")
           /\ Matches({"message_get_body_amqp_sequence_count",
                       "message_get_body_amqp_sequence_in_place"}, "Sequence")
           /\ Matches({"message_get_body_amqp_value_in_place"}, "Value")
           /\ ret.op = "message_get_body_type"
              => /\ ret.status = 0
                 /\ ret.kind \in {"Data", "Value", "Sequence", "None"}
                 /\ ret.kind = "Data" <=> tag = "Binary"
                 /\ ret.kind = "Value" <=> tag = "Value"
                 /\ ret.kind = "Sequence" <=> tag = "Sequence"
                 /\ ret.kind = "None" <=> tag = "Empty"

C8_Witness ==
    /\ hMessage \in DOMAIN messages
    /\ messages[hMessage].body.tag = "Value"
    /\ ret.op = "message_get_body_amqp_data_count"
    /\ ret.status = 1

\* C9: at most one builder handle is live, and it is the one the caller
\* holds; after build_and_destroy or destroy none is live; build leaves one
\* message, in the caller's hands.
C9_BuilderIsMoveOnly ==
    /\ Cardinality(DOMAIN builders) <= 1
    /\ DOMAIN builders # {} => (~panicked /\ DOMAIN builders = {hBuilder})
    /\ ret.op \in {"messagebuilder_build_and_destroy", "messagebuilder_destroy"}
       => DOMAIN builders = {}
    /\ ret.op = "messagebuilder_build_and_destroy" => DOMAIN messages = {hMessage}

C9_Witness ==
    /\ ret.op = "messagebuilder_build_and_destroy"
    /\ DOMAIN builders = {}
    /\ DOMAIN messages = {hMessage}
    /\ messages[hMessage].header.some
    /\ messages[hMessage].body.tag = "Sequence"

\* C10: a message built from a chain whose only body calls were n >= 1
\* add_body_amqp_data calls has a Data body of n chunks, and chunk i is the
\* (i+1)-th buffer added, with its length, whatever section setters the
\* chain also called.
C10_BinaryChunksInCallOrder ==
    (/\ hist.origin = "built"
     /\ hMessage \in DOMAIN messages
     /\ ~hist.other_body
     /\ Len(hist.adds) >= 1)
    => LET m == messages[hMessage]
       IN  /\ message_get_body_type_result(m).kind = "Data"
           /\ message_get_body_amqp_data_count_result(m).status = 0
           /\ message_get_body_amqp_data_count_result(m).count = Len(hist.adds)
           /\ \A i \in 0..(Len(hist.adds) - 1) :
                LET r == message_get_body_amqp_data_in_place_result(m, i)
                IN  /\ r.returned /\ r.status = 0 /\ r.written
                    /\ r.bytes = hist.adds[i + 1]
                    /\ r.count = Len(hist.adds[i + 1])
           /\ ret.op = "message_get_body_amqp_data_count" => ret.count = Len(hist.adds)
           /\ (ret.op = "message_get_body_amqp_data_in_place" /\ ret.returned)
              => \E i \in 1..Len(hist.adds) : ret.bytes = hist.adds[i]

C10_Witness ==
    /\ hist.origin = "built"
    /\ hMessage \in DOMAIN messages
    /\ ~hist.other_body
    /\ hist.adds = << <<2, 3>>, <<1>> >>
    /\ hist.footer = "empty"
    /\ ret.op = "message_get_body_amqp_data_in_place"
    /\ ret.bytes = <<1>>
    /\ ret.count = 1
====
